---- MODULE Spec2Model ----
(***************************************************************************)
(* State-machine model of GoalTracker (src/Goals_Tracker/project.py).      *)
(* Python dicts are functions from keys to values; goal objects live in a  *)
(* heap indexed by object identity, the two collections are lists of       *)
(* references, and the JSON file holds plain values without identity.      *)
(***************************************************************************)
EXTENDS Integers, Sequences, FiniteSets, TLC

VARIABLES file, data, heap, today, last

vars == <<file, data, heap, today, last>>

\* ---------------------------------------------------------------- bounds
MaxGoals == 2
\* daily_logs and missed_days entries in the whole store
MaxEntries == 2

\* ---------------------------------------------------------------- inputs
Names == {"a", "b"}
\* Numeric arguments arrive as text; "abc" stands for what float() rejects.
Targets == {"0", "2"}
WeeklyTargets == {"1"}
Units == {"km"}
Amounts == {"1", "2"}
BadNumbers == {"abc"}
Reasons == {"sick"}
\* 2024-01-02 and 2024-01-05: ISO week 1 of 2024; 2024-01-10: ISO week 2 of
\* 2024; 2025-01-01: ISO week 1 of 2025.
Dates == {<<2024, 1, 2>>, <<2024, 1, 5>>, <<2024, 1, 10>>, <<2025, 1, 1>>}
FirstDate == <<2024, 1, 2>>

\* ---------------------------------------------------------------- helpers
EmptyDict == [k \in {} |-> 0]

setdefault(d, k, v) == IF k \in DOMAIN d THEN d ELSE d @@ (k :> v)

\* float(): the numerals it accepts, Numerals[i] denoting i - 1.
Numerals == <<"0", "1", "2", "3">>

IsNumeric(s) == \E i \in DOMAIN Numerals : Numerals[i] = s

float(s) == (CHOOSE i \in DOMAIN Numerals : Numerals[i] = s) - 1

RECURSIVE SumProgress(_)
SumProgress(logs) ==
    IF logs = <<>> THEN 0
    ELSE logs[1].progress + SumProgress(Tail(logs))

\* ------------------------------------------------- datetime (ISO calendar)
IsLeap(y) == (y % 4 = 0) /\ ((y % 100 # 0) \/ (y % 400 = 0))

DaysInMonth(y, m) ==
    IF m = 2 THEN (IF IsLeap(y) THEN 29 ELSE 28)
    ELSE IF m \in {4, 6, 9, 11} THEN 30 ELSE 31

RECURSIVE DaysBeforeMonth(_, _)
DaysBeforeMonth(y, m) ==
    IF m = 1 THEN 0 ELSE DaysBeforeMonth(y, m - 1) + DaysInMonth(y, m - 1)

DaysBeforeYear(y) ==
    (y - 1) * 365 + ((y - 1) \div 4) - ((y - 1) \div 100) + ((y - 1) \div 400)

ymd2ord(d) == DaysBeforeYear(d[1]) + DaysBeforeMonth(d[1], d[2]) + d[3]

isoweek1monday(y) ==
    LET firstday == ymd2ord(<<y, 1, 1>>)
        firstweekday == (firstday + 6) % 7
        week1monday == firstday - firstweekday
    IN  IF firstweekday > 3 THEN week1monday + 7 ELSE week1monday

\* date.isocalendar(): <<ISO year, ISO week number>>
isocalendar(d) ==
    LET ord == ymd2ord(d)
        week == (ord - isoweek1monday(d[1])) \div 7
    IN  IF week < 0
        THEN <<d[1] - 1, ((ord - isoweek1monday(d[1] - 1)) \div 7) + 1>>
        ELSE IF week >= 52 /\ ord >= isoweek1monday(d[1] + 1)
             THEN <<d[1] + 1, 1>>
             ELSE <<d[1], week + 1>>

\* ------------------------------------------------------------ persistence
\* json.dump(self.data): every key of the document, every list of goal
\* objects written out as a list of plain records.
Dump(dat, hp) ==
    [kind |-> "json",
     doc  |-> [k \in DOMAIN dat |->
                  [i \in 1 .. Len(dat[k]) |-> hp[dat[k][i]]]]]

NoFile == [kind |-> "absent", doc |-> EmptyDict]

\* Variant of NormaliseGoal that assigns the unit instead of defaulting it.
NormaliseGoalOverwrite(g) ==
    setdefault(setdefault([k \in (DOMAIN g) \cup {"unit"} |->
                              IF k = "unit" THEN "units" ELSE g[k]],
                          "missed_days", <<>>),
               "daily_logs", <<>>)

\* Normalisation of one active goal record in load_data.
NormaliseGoal(g) ==
    setdefault(setdefault(setdefault(g, "unit", "units"),
                          "missed_days", <<>>),
               "daily_logs", <<>>)

\* Variant of LoadDoc that fills the goal fields before it renames `goals`.
LoadDocDefaultFirst(f) ==
    IF f.kind # "json"
    THEN [active_goals |-> <<>>, completed_goals |-> <<>>]
    ELSE LET d0 == f.doc
             d1 == setdefault(d0, "completed_goals", <<>>)
             d2 == [k \in DOMAIN d1 |->
                       IF k = "active_goals"
                       THEN [i \in 1 .. Len(d1[k]) |-> NormaliseGoal(d1[k][i])]
                       ELSE d1[k]]
             d3 == IF "goals" \in DOMAIN d2 /\ "active_goals" \notin DOMAIN d2
                   THEN [k \in (DOMAIN d2 \ {"goals"}) \cup {"active_goals"} |->
                            IF k = "active_goals" THEN d2["goals"] ELSE d2[k]]
                   ELSE d2
         IN  setdefault(d3, "active_goals", <<>>)

\* The document part of load_data: a dict of lists of goal records.
LoadDoc(f) ==
    IF f.kind # "json"
    THEN [active_goals |-> <<>>, completed_goals |-> <<>>]
    ELSE LET d0 == f.doc
             d1 == IF "goals" \in DOMAIN d0 /\ "active_goals" \notin DOMAIN d0
                   THEN [k \in (DOMAIN d0 \ {"goals"}) \cup {"active_goals"} |->
                            IF k = "active_goals" THEN d0["goals"] ELSE d0[k]]
                   ELSE d0
             d2 == setdefault(d1, "active_goals", <<>>)
             d3 == setdefault(d2, "completed_goals", <<>>)
         IN  [k \in DOMAIN d3 |->
                 IF k = "active_goals"
                 THEN [i \in 1 .. Len(d3[k]) |-> NormaliseGoal(d3[k][i])]
                 ELSE d3[k]]

\* json.load builds fresh objects: the active goals get identities 1..n, the
\* completed goals the next ones, the goals of a `goals` key that was kept
\* the last ones. A document that is a JSON array has no setdefault: the
\* AttributeError is not caught and no tracker is constructed.
load_data(f) ==
    IF f.kind = "json_array"
    THEN [data  |-> [active_goals |-> <<>>, completed_goals |-> <<>>],
          heap  |-> <<>>,
          error |-> "AttributeError"]
    ELSE LET doc == LoadDoc(f)
             na  == Len(doc.active_goals)
             nc  == Len(doc.completed_goals)
             ng  == IF "goals" \in DOMAIN doc THEN Len(doc.goals) ELSE 0
             off == [k \in DOMAIN doc |->
                        IF k = "active_goals" THEN 0
                        ELSE IF k = "completed_goals" THEN na ELSE na + nc]
         IN  [data  |-> [k \in DOMAIN doc |->
                            [i \in 1 .. Len(doc[k]) |-> off[k] + i]],
              heap  |-> [o \in 1 .. (na + nc + ng) |->
                            IF o <= na THEN doc.active_goals[o]
                            ELSE IF o <= na + nc THEN doc.completed_goals[o - na]
                            ELSE doc.goals[o - na - nc]],
              error |-> "None"]

\* ------------------------------------------------------------- operations
DictEq(a, b) == DOMAIN a = DOMAIN b /\ \A k \in DOMAIN a : a[k] = b[k]

\* Variant of FirstMatch with the comparison inverted (`!=` for `==`).
FirstMatchInverted(dat, hp, goal_name) ==
    LET hits == {i \in 1 .. Len(dat.active_goals) :
                    hp[dat.active_goals[i]].name # goal_name}
    IN  IF hits = {} THEN 0
        ELSE CHOOSE i \in hits : \A j \in hits : i <= j

\* Variant of FirstMatch that takes the last goal of the name.
FirstMatchLast(dat, hp, goal_name) ==
    LET hits == {i \in 1 .. Len(dat.active_goals) :
                    hp[dat.active_goals[i]].name = goal_name}
    IN  IF hits = {} THEN 0
        ELSE CHOOSE i \in hits : \A j \in hits : i >= j

\* Index of the first active goal whose name matches, 0 when there is none
\* (the `for goal in active_goals: if goal["name"] == goal_name` scan).
FirstMatch(dat, hp, goal_name) ==
    LET hits == {i \in 1 .. Len(dat.active_goals) :
                    hp[dat.active_goals[i]].name = goal_name}
    IN  IF hits = {} THEN 0
        ELSE CHOOSE i \in hits : \A j \in hits : i <= j

\* Objects still referenced by the document; the others are garbage.
Live(dat) == UNION {{dat[k][i] : i \in 1 .. Len(dat[k])} : k \in DOMAIN dat}

Collect(dat, hp) == [o \in (DOMAIN hp) \cap Live(dat) |-> hp[o]]

FreshOid(hp) == CHOOSE o \in 1 .. (MaxGoals + 1) :
                    o \notin DOMAIN hp /\ \A p \in 1 .. (o - 1) : p \in DOMAIN hp

save_data(dat, hp) == Dump(dat, hp)

RECURSIVE CountEntries(_, _)
CountEntries(hp, objs) ==
    IF objs = {} THEN 0
    ELSE LET o == CHOOSE p \in objs : TRUE
             g == hp[o]
         IN  (IF "daily_logs" \in DOMAIN g THEN Len(g.daily_logs) ELSE 0)
             + (IF "missed_days" \in DOMAIN g THEN Len(g.missed_days) ELSE 0)
             + CountEntries(hp, objs \ {o})

Entries(hp) == CountEntries(hp, DOMAIN hp)

\* The dict literal of add_goal.
NewGoal(name, total_target, weekly_target, unit) ==
    [name          |-> name,
     total_target  |-> float(total_target),
     weekly_target |-> float(weekly_target),
     unit          |-> unit,
     daily_logs    |-> <<>>]

\* Variant of KeepOthers that drops only the first goal of the name.
KeepOthersButFirst(active, hp, goal_name) ==
    LET hits == {i \in 1 .. Len(active) : hp[active[i]].name = goal_name}
    IN  IF hits = {} THEN active
        ELSE LET first == CHOOSE i \in hits : \A j \in hits : i <= j
             IN  [i \in 1 .. (Len(active) - 1) |->
                     IF i < first THEN active[i] ELSE active[i + 1]]

\* The list comprehension of delete_goal.
KeepOthers(active, hp, goal_name) ==
    SelectSeq(active, LAMBDA o : hp[o].name # goal_name)

\* list.remove(x): drops the first element identical or equal to x.
ListRemove(list, hp, o) ==
    LET hits == {i \in 1 .. Len(list) : list[i] = o \/ DictEq(hp[list[i]], hp[o])}
        first == CHOOSE i \in hits : \A j \in hits : i <= j
    IN  [i \in 1 .. (Len(list) - 1) |-> IF i < first THEN list[i] ELSE list[i + 1]]

\* Variant of complete_goal that leaves the goal in active_goals.
complete_goalKeepsActive(dat, hp, o, date) ==
    LET hp1 == [hp EXCEPT ![o] =
                   [k \in (DOMAIN @) \cup {"completion_date"} |->
                       IF k = "completion_date" THEN date ELSE @[k]]]
    IN  [data |-> [dat EXCEPT !.completed_goals = Append(@, o)], heap |-> hp1]

\* complete_goal up to its save: stamp, append to completed, remove from active.
complete_goal(dat, hp, o, date) ==
    LET hp1 == [hp EXCEPT ![o] =
                   [k \in (DOMAIN @) \cup {"completion_date"} |->
                       IF k = "completion_date" THEN date ELSE @[k]]]
        dat1 == [dat EXCEPT !.completed_goals = Append(@, o)]
        dat2 == [dat1 EXCEPT !.active_goals = ListRemove(@, hp1, o)]
    IN  [data |-> dat2, heap |-> hp1]

\* Variant of Completes with `>` for `>=`.
CompletesStrict(total_progress, total_target) == total_progress > total_target

\* Variant of Completes with `<=` for `>=`.
CompletesInverted(total_progress, total_target) == total_progress <= total_target

\* The completion test of log_progress.
Completes(total_progress, total_target) == total_progress >= total_target

\* The week filter of get_weekly_progress.
SameWeek(log_date, now) == isocalendar(log_date)[2] = isocalendar(now)[2]

RECURSIVE WeeklySum(_, _)
WeeklySum(logs, now) ==
    IF logs = <<>> THEN 0
    ELSE (IF SameWeek(logs[1].date, now) THEN logs[1].progress ELSE 0)
         + WeeklySum(Tail(logs), now)

Result(op, name, ret, val) == [op |-> op, name |-> name, ret |-> ret, val |-> val]

\* Variant of add_goal that appends the goal before it converts the targets.
add_goalLateCheck(name, total_target, weekly_target, unit) ==
    /\ Cardinality(DOMAIN heap) < MaxGoals
    /\ LET o    == FreshOid(heap)
           bad  == ~IsNumeric(total_target) \/ ~IsNumeric(weekly_target)
           hp1  == [p \in (DOMAIN heap) \cup {o} |->
                      IF p = o
                      THEN NewGoal(name,
                                   IF bad THEN "0" ELSE total_target,
                                   IF bad THEN "0" ELSE weekly_target, unit)
                      ELSE heap[p]]
           dat1 == [data EXCEPT !.active_goals = Append(@, o)]
       IN  /\ heap' = hp1
           /\ data' = dat1
           /\ file' = IF bad THEN file ELSE save_data(dat1, hp1)
           /\ last' = Result("add_goal", name,
                             IF bad THEN "ValueError" ELSE "None", 0)
    /\ UNCHANGED today

\* Variant of add_goal that skips a name some goal already has.
add_goalUnique(name, total_target, weekly_target, unit) ==
    IF ~IsNumeric(total_target) \/ ~IsNumeric(weekly_target)
    THEN /\ last' = Result("add_goal", name, "ValueError", 0)
         /\ UNCHANGED <<file, data, heap, today>>
    ELSE IF \E o \in DOMAIN heap : heap[o].name = name
    THEN /\ last' = Result("add_goal", name, "None", 0)
         /\ UNCHANGED <<file, data, heap, today>>
    ELSE /\ Cardinality(DOMAIN heap) < MaxGoals
         /\ LET o   == FreshOid(heap)
                hp1 == [p \in (DOMAIN heap) \cup {o} |->
                           IF p = o
                           THEN NewGoal(name, total_target, weekly_target, unit)
                           ELSE heap[p]]
                dat1 == [data EXCEPT !.active_goals = Append(@, o)]
            IN  /\ heap' = hp1
                /\ data' = dat1
                /\ file' = save_data(dat1, hp1)
         /\ last' = Result("add_goal", name, "None", 0)
         /\ UNCHANGED today

add_goal(name, total_target, weekly_target, unit) ==
    IF ~IsNumeric(total_target) \/ ~IsNumeric(weekly_target)
    THEN \* float() raises ValueError while the dict is built, before append
         /\ last' = Result("add_goal", name, "ValueError", 0)
         /\ UNCHANGED <<file, data, heap, today>>
    ELSE /\ Cardinality(DOMAIN heap) < MaxGoals
         /\ LET o   == FreshOid(heap)
                hp1 == [p \in (DOMAIN heap) \cup {o} |->
                           IF p = o
                           THEN NewGoal(name, total_target, weekly_target, unit)
                           ELSE heap[p]]
                dat1 == [data EXCEPT !.active_goals = Append(@, o)]
            IN  /\ heap' = hp1
                /\ data' = dat1
                /\ file' = save_data(dat1, hp1)
         /\ last' = Result("add_goal", name, "None", 0)
         /\ UNCHANGED today

\* Variant of delete_goal without the save.
delete_goalNoSave(goal_name) ==
    /\ LET dat1 == [data EXCEPT !.active_goals = KeepOthers(@, heap, goal_name)]
       IN  /\ data' = dat1
           /\ heap' = Collect(dat1, heap)
    /\ last' = Result("delete_goal", goal_name, "None", 0)
    /\ UNCHANGED <<file, today>>

\* Variant of delete_goal that filters completed_goals as well.
delete_goalBoth(goal_name) ==
    /\ LET dat1 == [data EXCEPT
                       !.active_goals = KeepOthers(@, heap, goal_name),
                       !.completed_goals = KeepOthers(@, heap, goal_name)]
           hp1  == Collect(dat1, heap)
       IN  /\ data' = dat1
           /\ heap' = hp1
           /\ file' = save_data(dat1, hp1)
    /\ last' = Result("delete_goal", goal_name, "None", 0)
    /\ UNCHANGED today

delete_goal(goal_name) ==
    /\ LET dat1 == [data EXCEPT !.active_goals = KeepOthers(@, heap, goal_name)]
           hp1  == Collect(dat1, heap)
       IN  /\ data' = dat1
           /\ heap' = hp1
           /\ file' = save_data(dat1, hp1)
    /\ last' = Result("delete_goal", goal_name, "None", 0)
    /\ UNCHANGED today

\* Variant of log_progress that puts the new entry first.
log_progressPrepend(goal_name, progress) ==
    LET i == FirstMatch(data, heap, goal_name)
    IN  IF i = 0
        THEN /\ last' = Result("log_progress", goal_name, "False", 0)
             /\ UNCHANGED <<file, data, heap, today>>
        ELSE IF ~IsNumeric(progress)
        THEN /\ last' = Result("log_progress", goal_name, "ValueError", 0)
             /\ UNCHANGED <<file, data, heap, today>>
        ELSE LET o   == data.active_goals[i]
                 hp1 == [heap EXCEPT ![o].daily_logs =
                            <<[date |-> today, progress |-> float(progress)]>> \o @]
                 total_progress == SumProgress(hp1[o].daily_logs)
                 done == IF Completes(total_progress, hp1[o].total_target)
                         THEN complete_goal(data, hp1, o, today)
                         ELSE [data |-> data, heap |-> hp1]
             IN  /\ Entries(heap) < MaxEntries
                 /\ data' = done.data
                 /\ heap' = done.heap
                 /\ file' = save_data(done.data, done.heap)
                 /\ last' = Result("log_progress", goal_name, "True", 0)
                 /\ UNCHANGED today

log_progress(goal_name, progress) ==
    LET i == FirstMatch(data, heap, goal_name)
    IN  IF i = 0
        THEN /\ last' = Result("log_progress", goal_name, "False", 0)
             /\ UNCHANGED <<file, data, heap, today>>
        ELSE IF ~IsNumeric(progress)
        THEN \* float() raises ValueError while the entry is built, before append
             /\ last' = Result("log_progress", goal_name, "ValueError", 0)
             /\ UNCHANGED <<file, data, heap, today>>
        ELSE LET o   == data.active_goals[i]
                 hp1 == [heap EXCEPT ![o].daily_logs =
                            Append(@, [date |-> today, progress |-> float(progress)])]
                 total_progress == SumProgress(hp1[o].daily_logs)
                 done == IF Completes(total_progress, hp1[o].total_target)
                         THEN complete_goal(data, hp1, o, today)
                         ELSE [data |-> data, heap |-> hp1]
             IN  /\ Entries(heap) < MaxEntries
                 /\ data' = done.data
                 /\ heap' = done.heap
                 /\ file' = save_data(done.data, done.heap)
                 /\ last' = Result("log_progress", goal_name, "True", 0)
                 /\ UNCHANGED today

\* Variant of log_missed_day that appends to every active goal of the name.
log_missed_dayAll(goal_name, reason) ==
    LET i == FirstMatch(data, heap, goal_name)
    IN  IF i = 0
        THEN /\ last' = Result("log_missed_day", goal_name, "False", 0)
             /\ UNCHANGED <<file, data, heap, today>>
        ELSE LET o == data.active_goals[i]
             IN  IF "missed_days" \notin DOMAIN heap[o]
                 THEN /\ last' = Result("log_missed_day", goal_name, "KeyError", 0)
                      /\ UNCHANGED <<file, data, heap, today>>
                 ELSE LET hit(p) == /\ \E j \in 1 .. Len(data.active_goals) :
                                          data.active_goals[j] = p
                                    /\ heap[p].name = goal_name
                                    /\ "missed_days" \in DOMAIN heap[p]
                          hp1 == [p \in DOMAIN heap |->
                                     IF hit(p)
                                     THEN [heap[p] EXCEPT !.missed_days =
                                              Append(@, [date |-> today,
                                                         reason |-> reason])]
                                     ELSE heap[p]]
                      IN  /\ Entries(heap) < MaxEntries
                          /\ heap' = hp1
                          /\ file' = save_data(data, hp1)
                          /\ last' = Result("log_missed_day", goal_name, "True", 0)
                          /\ UNCHANGED <<data, today>>

log_missed_day(goal_name, reason) ==
    LET i == FirstMatch(data, heap, goal_name)
    IN  IF i = 0
        THEN /\ last' = Result("log_missed_day", goal_name, "False", 0)
             /\ UNCHANGED <<file, data, heap, today>>
        ELSE LET o == data.active_goals[i]
             IN  IF "missed_days" \notin DOMAIN heap[o]
                 THEN \* goal["missed_days"] raises KeyError before any change
                      /\ last' = Result("log_missed_day", goal_name, "KeyError", 0)
                      /\ UNCHANGED <<file, data, heap, today>>
                 ELSE LET hp1 == [heap EXCEPT ![o].missed_days =
                                     Append(@, [date |-> today, reason |-> reason])]
                      IN  /\ Entries(heap) < MaxEntries
                          /\ heap' = hp1
                          /\ file' = save_data(data, hp1)
                          /\ last' = Result("log_missed_day", goal_name, "True", 0)
                          /\ UNCHANGED <<data, today>>

\* Variant of get_weekly_progress that falls back to the completed goals.
get_weekly_progressAnyGoal(goal_name) ==
    LET i == FirstMatch(data, heap, goal_name)
        done == {j \in 1 .. Len(data.completed_goals) :
                    heap[data.completed_goals[j]].name = goal_name}
    IN  /\ last' = Result("get_weekly_progress", goal_name, "value",
                          IF i # 0
                          THEN WeeklySum(heap[data.active_goals[i]].daily_logs, today)
                          ELSE IF done = {} THEN 0
                          ELSE WeeklySum(heap[data.completed_goals[
                                   CHOOSE j \in done : \A k \in done : j <= k]].daily_logs,
                                         today))
        /\ UNCHANGED <<file, data, heap, today>>

get_weekly_progress(goal_name) ==
    LET i == FirstMatch(data, heap, goal_name)
    IN  /\ last' = Result("get_weekly_progress", goal_name, "value",
                          IF i = 0 THEN 0
                          ELSE WeeklySum(heap[data.active_goals[i]].daily_logs, today))
        /\ UNCHANGED <<file, data, heap, today>>

\* A new process: GoalTracker.__init__ loads the file the last one left.
Restart ==
    /\ LET l == load_data(file)
       IN  /\ data' = l.data
           /\ heap' = l.heap
           /\ last' = Result("load_data", "", l.error, 0)
    /\ UNCHANGED <<file, today>>

\* datetime.now(): the system clock moves on between calls.
ClockAdvance ==
    /\ \E d \in Dates : ymd2ord(d) > ymd2ord(today) /\ today' = d
    /\ last' = Result("clock", "", "None", 0)
    /\ UNCHANGED <<file, data, heap>>

\* ---------------------------------------------------------- specifications
\* Stored documents a first process may find: none, undecodable text, a
\* legacy document, documents with missing keys and fields.
StoredFiles ==
    {NoFile,
     [kind |-> "undecodable", doc |-> EmptyDict],
     [kind |-> "json",
      doc  |-> [goals |-> <<[name |-> "a", total_target |-> 2, weekly_target |-> 1]>>]],
     [kind |-> "json",
      doc  |-> [active_goals |->
                   <<[name |-> "a", total_target |-> 3, weekly_target |-> 1,
                      unit |-> "km",
                      daily_logs |-> <<[date |-> FirstDate, progress |-> 1]>>]>>]],
     [kind |-> "json",
      doc  |-> [completed_goals |->
                   <<[name |-> "a", total_target |-> 2, weekly_target |-> 1,
                      daily_logs |-> <<[date |-> FirstDate, progress |-> 2]>>,
                      completion_date |-> FirstDate]>>]]}

InitFrom(f) ==
    /\ file = f
    /\ LET l == load_data(f)
       IN  /\ data = l.data
           /\ heap = l.heap
           /\ last = Result("load_data", "", l.error, 0)
    /\ today = FirstDate

Init == InitFrom(NoFile)

InitStored == \E f \in StoredFiles : InitFrom(f)

Next ==
    \/ \E n \in Names, t \in Targets, w \in WeeklyTargets, u \in Units :
           add_goal(n, t, w, u)
    \/ \E n \in Names : delete_goal(n)
    \/ \E n \in Names, p \in Amounts : log_progress(n, p)
    \/ \E n \in Names, r \in Reasons : log_missed_day(n, r)
    \/ Restart

Spec == Init /\ [][Next]_vars

SpecStored == InitStored /\ [][Next]_vars

\* Further stored content: a JSON array, and a document that has a `goals`
\* key next to `active_goals`.
OtherFiles ==
    {[kind |-> "json_array", doc |-> EmptyDict],
     [kind |-> "json",
      doc  |-> [goals |-> <<[name |-> "b", total_target |-> 2, weekly_target |-> 1]>>,
                active_goals |-> <<[name |-> "a", total_target |-> 2,
                                    weekly_target |-> 1]>>]]}

InitAnyFile == \E f \in StoredFiles \cup OtherFiles : InitFrom(f)

\* A process whose constructor raised has no tracker to call; only a new
\* process can follow.
Alive == ~(last.op = "load_data" /\ last.ret # "None")

NextAnyFile ==
    \/ Alive /\ Next
    \/ Restart

SpecAnyFile == InitAnyFile /\ [][NextAnyFile]_vars

\* The operations on arguments float() rejects as well as on numeric ones.
NextInput ==
    \/ \E n \in Names, t \in Targets \cup BadNumbers,
          w \in WeeklyTargets \cup BadNumbers, u \in Units :
           add_goal(n, t, w, u)
    \/ \E n \in Names, p \in Amounts \cup BadNumbers : log_progress(n, p)
    \/ \E n \in Names, r \in Reasons : log_missed_day(n, r)
    \/ Restart

SpecInput == Init /\ [][NextInput]_vars

\* The weekly query over a running clock, for goals named "a".
NextWeekly ==
    \/ \E t \in Targets, w \in WeeklyTargets, u \in Units : add_goal("a", t, w, u)
    \/ delete_goal("a")
    \/ \E p \in Amounts : log_progress("a", p)
    \/ \E n \in Names : get_weekly_progress(n)
    \/ ClockAdvance

SpecWeekly == Init /\ [][NextWeekly]_vars

\* ------------------------------------------------------- property helpers
Elems(list) == {list[i] : i \in 1 .. Len(list)}

Occurrences(list, o) == Cardinality({i \in 1 .. Len(list) : list[i] = o})

\* Positions of the active goals called n, and the first of them.
ActiveNamed(dat, hp, n) ==
    {i \in 1 .. Len(dat.active_goals) : hp[dat.active_goals[i]].name = n}

FirstActive(dat, hp, n) ==
    dat.active_goals[CHOOSE i \in ActiveNamed(dat, hp, n) :
                         \A j \in ActiveNamed(dat, hp, n) : i <= j]

IsPrefix(s, t) == Len(s) <= Len(t) /\ \A i \in 1 .. Len(s) : s[i] = t[i]

EmptyDoc == [active_goals |-> <<>>, completed_goals |-> <<>>]

\* ------------------------------------------------------------------ claims

\* C1: every goal in active_goals has the sum of its daily_logs progress
\* strictly below its total_target (total_target 0 included).
C1_ActiveBelowTarget ==
    \A o \in Elems(data.active_goals) :
        SumProgress(heap[o].daily_logs) < heap[o].total_target

\* C2: a log-progress call that matches an active goal appends the entry to
\* the first match; the goal ends in completed_goals with a completion_date
\* and out of active_goals iff the new sum is >= total_target, and otherwise
\* stays in active_goals.
C2_CompletionIff ==
    [][(last'.op = "log_progress" /\ ActiveNamed(data, heap, last'.name) # {}) =>
          LET o == FirstActive(data, heap, last'.name)
          IN  /\ last'.ret = "True"
              /\ o \in DOMAIN heap'
              /\ Len(heap'[o].daily_logs) = Len(heap[o].daily_logs) + 1
              /\ IsPrefix(heap[o].daily_logs, heap'[o].daily_logs)
              /\ IF SumProgress(heap'[o].daily_logs) >= heap'[o].total_target
                 THEN /\ o \in Elems(data'.completed_goals)
                      /\ o \notin Elems(data'.active_goals)
                      /\ "completion_date" \in DOMAIN heap'[o]
                 ELSE /\ o \in Elems(data'.active_goals)
                      /\ o \notin Elems(data'.completed_goals)
                      /\ "completion_date" \notin DOMAIN heap'[o] \ DOMAIN heap[o]]_vars

\* A goal completed by its second entry: active after the first call (sum
\* below target), completed by the log-progress call that just returned.
C2_Witness ==
    /\ last.op = "log_progress" /\ last.ret = "True"
    /\ \E o \in Elems(data.completed_goals) :
          /\ heap[o].name = last.name
          /\ Len(heap[o].daily_logs) = 2
          /\ heap[o].daily_logs[1].progress < heap[o].total_target
          /\ SumProgress(heap[o].daily_logs) > heap[o].total_target

\* C3: every existing goal object occurs exactly once in exactly one of
\* active_goals and completed_goals.
C3_ExactlyOneCollection ==
    \A o \in DOMAIN heap :
        Occurrences(data.active_goals, o) + Occurrences(data.completed_goals, o) = 1

\* Two goals of the same name, one completed by the call that just returned,
\* the other still active.
C3_Witness ==
    /\ last.op = "log_progress" /\ last.ret = "True"
    /\ \E o \in Elems(data.active_goals), c \in Elems(data.completed_goals) :
          /\ heap[o].name = heap[c].name
          /\ heap[o].total_target = heap[c].total_target

\* C4: log-missed-day on a name some active goal has appends one entry to
\* the first match's missed_days, persists and returns true, however the goal
\* came to be active; it returns false only when no active goal has the name.
C4_MissedDayAlwaysLogged ==
    [][last'.op = "log_missed_day" =>
          IF ActiveNamed(data, heap, last'.name) = {}
          THEN last'.ret = "False"
          ELSE LET o == FirstActive(data, heap, last'.name)
               IN  /\ last'.ret = "True"
                   /\ "missed_days" \in DOMAIN heap'[o]
                   /\ Len(heap'[o].missed_days) = 1 +
                         (IF "missed_days" \in DOMAIN heap[o]
                          THEN Len(heap[o].missed_days) ELSE 0)
                   /\ file' = Dump(data', heap')]_vars

\* C5: saving the in-memory document and loading it back gives goals with
\* the same fields and values.
C5_RoundTrip ==
    LET l == load_data(save_data(data, heap))
    IN  Dump(l.data, l.heap) = Dump(data, heap)

\* C6 (as stated): at every operation boundary, load included, the stored
\* document is the in-memory document (no stored document counts as the
\* empty one).
C6_PersistedEqualsMemory ==
    IF file.kind = "json" THEN file = Dump(data, heap)
    ELSE data = EmptyDoc

\* C6 (amended): after each return of add-goal and delete-goal, and of each
\* log-progress and log-missed-day call that returns true, the stored
\* document is the full in-memory document.
C6_SavedAfterMutation ==
    (\/ last.op \in {"add_goal", "delete_goal"}
     \/ last.op \in {"log_progress", "log_missed_day"} /\ last.ret = "True")
    => file = Dump(data, heap)

\* A log-progress call with completion has returned, in a process that
\* loaded a stored document whose active goal lacked missed_days.
C6_Witness ==
    /\ last.op = "log_progress" /\ last.ret = "True"
    /\ \E c \in Elems(data.completed_goals) :
          /\ heap[c].name = last.name
          /\ "missed_days" \in DOMAIN heap[c]
    /\ file = Dump(data, heap)

\* C7: log-progress and log-missed-day with a name no active goal has return
\* false and leave both collections and the stored document unchanged.
C7_UnknownNameNoChange ==
    [][(/\ last'.op \in {"log_progress", "log_missed_day"}
        /\ ActiveNamed(data, heap, last'.name) = {}) =>
          /\ last'.ret = "False"
          /\ data' = data
          /\ heap' = heap
          /\ file' = file]_vars

\* A log call has failed on a name that only a completed goal has.
C7_Witness ==
    /\ last.op \in {"log_progress", "log_missed_day"}
    /\ last.ret = "False"
    /\ \E c \in Elems(data.completed_goals) : heap[c].name = last.name
    /\ data.active_goals # <<>>

\* C8: completed goals are immutable and stay: across every step the old
\* completed_goals, with all field values, is a prefix of the new one; within
\* a process the objects are the same ones and none is back in active_goals,
\* and delete-goal leaves completed_goals as it was.
C8_CompletedIsTerminal ==
    [][/\ Len(data.completed_goals) <= Len(data'.completed_goals)
       /\ \A i \in 1 .. Len(data.completed_goals) :
             /\ heap'[data'.completed_goals[i]] = heap[data.completed_goals[i]]
             /\ data'.completed_goals[i] \notin Elems(data'.active_goals)
             /\ (last'.op # "load_data" =>
                    data'.completed_goals[i] = data.completed_goals[i])
       /\ (last'.op = "delete_goal" =>
              data'.completed_goals = data.completed_goals)]_vars

\* A delete-goal call with the name of a completed goal has returned and the
\* completed goal is still there.
C8_Witness ==
    /\ last.op = "delete_goal"
    /\ \E c \in Elems(data.completed_goals) : heap[c].name = last.name

\* The sum the weekly query is specified to return: the entries whose date is
\* in the ISO week (year and week number) of the current date.
RECURSIVE IsoWeekSum(_, _)
IsoWeekSum(logs, now) ==
    IF logs = <<>> THEN 0
    ELSE (IF isocalendar(logs[1].date) = isocalendar(now)
          THEN logs[1].progress ELSE 0)
         + IsoWeekSum(Tail(logs), now)

\* C9: the weekly-progress query for an active goal returns the sum over
\* exactly the entries dated in the ISO calendar week of the current date;
\* entries of the same week number of another year are not counted.
C9_WeeklySumSameIsoWeek ==
    (last.op = "get_weekly_progress" /\ ActiveNamed(data, heap, last.name) # {})
    => last.val = IsoWeekSum(heap[FirstActive(data, heap, last.name)].daily_logs,
                             today)

\* C10: delete-goal removes exactly the active goals of the given name, keeps
\* the others unchanged and in order, leaves completed_goals alone, raises
\* nothing, changes nothing when no active goal matches, and leaves no active
\* goal of that name (a second delete of the name changes nothing).
C10_DeleteExactlyNamed ==
    [][last'.op = "delete_goal" =>
          /\ last'.ret = "None"
          /\ data'.active_goals =
                SelectSeq(data.active_goals, LAMBDA o : heap[o].name # last'.name)
          /\ data'.completed_goals = data.completed_goals
          /\ \A o \in Live(data') : heap'[o] = heap[o]
          /\ (ActiveNamed(data, heap, last'.name) = {} =>
                 data' = data /\ heap' = heap)
          /\ ActiveNamed(data', heap', last'.name) = {}]_vars

\* A delete-goal call has returned with the first-created goal of the
\* process gone and an active goal of another name kept.
C10_Witness ==
    /\ last.op = "delete_goal"
    /\ 1 \notin DOMAIN heap
    /\ data.active_goals # <<>>
    /\ \A o \in Elems(data.active_goals) : heap[o].name # last.name

\* C11: a call that fails applies nothing: when add-goal raises on a
\* non-numeric target, or log-progress or log-missed-day returns false or
\* raises, both collections and the stored document are as before the call.
C11_FailureChangesNothing ==
    [][(/\ last'.op \in {"add_goal", "log_progress", "log_missed_day"}
        /\ last'.ret \in {"False", "ValueError", "KeyError"}) =>
          /\ data' = data
          /\ heap' = heap
          /\ file' = file]_vars

\* A log-progress call has raised on a non-numeric amount for an active goal
\* that already has an entry.
C11_Witness ==
    /\ last.op = "log_progress" /\ last.ret = "ValueError"
    /\ \E o \in Elems(data.active_goals) :
          heap[o].name = last.name /\ heap[o].daily_logs # <<>>

\* The goal records a stored document holds for the active collection.
StoredActive(doc) ==
    IF "active_goals" \in DOMAIN doc THEN doc.active_goals
    ELSE IF "goals" \in DOMAIN doc THEN doc.goals ELSE <<>>

StoredCompleted(doc) ==
    IF "completed_goals" \in DOMAIN doc THEN doc.completed_goals ELSE <<>>

DefaultedFields == {"unit", "missed_days", "daily_logs"}

Legacy(f) ==
    /\ f.kind = "json"
    /\ "goals" \in DOMAIN f.doc
    /\ "active_goals" \notin DOMAIN f.doc

\* C12: after loading a document with a `goals` key and no `active_goals`
\* key, the in-memory document has no `goals` key and its active_goals are the
\* stored goals, one for one with every stored field as stored, and these
\* migrated goals have received the defaulted fields.
C12_LegacyMigration ==
    (last.op = "load_data" /\ Legacy(file)) =>
        /\ "goals" \notin DOMAIN data
        /\ "active_goals" \in DOMAIN data
        /\ Len(data.active_goals) = Len(file.doc.goals)
        /\ \A i \in 1 .. Len(file.doc.goals) :
              LET g == heap[data.active_goals[i]]
                  st == file.doc.goals[i]
              IN  /\ \A k \in DOMAIN st : k \in DOMAIN g /\ g[k] = st[k]
                  /\ DefaultedFields \subseteq DOMAIN g

\* A legacy document with a goal has just been loaded.
C12_Witness ==
    /\ last.op = "load_data"
    /\ Legacy(file)
    /\ data.active_goals # <<>>

\* C13: load gives every active goal exactly the missing ones of unit
\* ("units"), missed_days ([]) and daily_logs ([]), keeps every stored field
\* with its value, makes both collections exist (empty when absent) and
\* leaves the completed records as stored.
C13_FieldDefaulting ==
    (last.op = "load_data" /\ file.kind = "json") =>
        /\ {"active_goals", "completed_goals"} \subseteq DOMAIN data
        /\ Len(data.active_goals) = Len(StoredActive(file.doc))
        /\ \A i \in 1 .. Len(data.active_goals) :
              LET g == heap[data.active_goals[i]]
                  st == StoredActive(file.doc)[i]
              IN  /\ DOMAIN g = (DOMAIN st) \cup DefaultedFields
                  /\ \A k \in DOMAIN st : g[k] = st[k]
                  /\ ("unit" \notin DOMAIN st => g.unit = "units")
                  /\ ("missed_days" \notin DOMAIN st => g.missed_days = <<>>)
                  /\ ("daily_logs" \notin DOMAIN st => g.daily_logs = <<>>)
        /\ [i \in 1 .. Len(data.completed_goals) |-> heap[data.completed_goals[i]]]
              = StoredCompleted(file.doc)

\* A document has just been loaded whose active goal had its own unit and
\* entries but no missed_days, and which had no completed_goals key.
C13_Witness ==
    /\ last.op = "load_data"
    /\ file.kind = "json"
    /\ "completed_goals" \notin DOMAIN file.doc
    /\ \E i \in 1 .. Len(StoredActive(file.doc)) :
          LET st == StoredActive(file.doc)[i]
          IN  /\ "unit" \in DOMAIN st /\ st.unit # "units"
              /\ "daily_logs" \in DOMAIN st /\ st.daily_logs # <<>>
              /\ "missed_days" \notin DOMAIN st

\* C14: load never fails: whatever the storage holds, the constructor
\* returns, and content that is not a stored document gives the empty
\* in-memory document.
C14_LoadNeverFails ==
    last.op = "load_data" =>
        /\ last.ret = "None"
        /\ (file.kind # "json" => data = EmptyDoc)

\* C15: every completed goal has a completion_date and a progress sum >= its
\* total_target, and completed_goals grows only by the goal a successful
\* log-progress call has just appended its entry to.
C15_CompletedReachedTarget ==
    [][/\ \A c \in Elems(data'.completed_goals) :
             /\ "completion_date" \in DOMAIN heap'[c]
             /\ SumProgress(heap'[c].daily_logs) >= heap'[c].total_target
       /\ (Len(data'.completed_goals) > Len(data.completed_goals) =>
              /\ last'.op = "log_progress" /\ last'.ret = "True"
              /\ Len(data'.completed_goals) = Len(data.completed_goals) + 1
              /\ ActiveNamed(data, heap, last'.name) # {}
              /\ LET c == data'.completed_goals[Len(data'.completed_goals)]
                 IN  /\ c = FirstActive(data, heap, last'.name)
                     /\ Len(heap'[c].daily_logs) = Len(heap[c].daily_logs) + 1)]_vars

\* A goal completed by its second entry with the sum exactly at the target.
C15_Witness ==
    \E c \in Elems(data.completed_goals) :
        /\ Len(heap[c].daily_logs) = 2
        /\ heap[c].total_target > 0
        /\ SumProgress(heap[c].daily_logs) = heap[c].total_target

\* C16: add-goal with numeric targets raises nothing and appends exactly one
\* new goal, with the given name and empty daily_logs, at the end of
\* active_goals; every other goal and completed_goals stay as they were,
\* whether or not the name is already in use.
C16_AddAppendsOne ==
    [][last'.op = "add_goal" =>
          /\ last'.ret = "None"
          /\ Len(data'.active_goals) = Len(data.active_goals) + 1
          /\ LET new == data'.active_goals[Len(data'.active_goals)]
             IN  /\ new \notin DOMAIN heap
                 /\ DOMAIN heap' = (DOMAIN heap) \cup {new}
                 /\ heap'[new].name = last'.name
                 /\ heap'[new].daily_logs = <<>>
          /\ IsPrefix(data.active_goals, data'.active_goals)
          /\ data'.completed_goals = data.completed_goals
          /\ \A o \in DOMAIN heap : heap'[o] = heap[o]
          /\ file' = Dump(data', heap')]_vars

\* An add-goal call has created a second goal equal in every field to an
\* active one.
C16_Witness ==
    /\ last.op = "add_goal" /\ last.ret = "None"
    /\ Len(data.active_goals) = 2
    /\ data.active_goals[1] # data.active_goals[2]
    /\ heap[data.active_goals[1]] = heap[data.active_goals[2]]

\* C17: a successful log-progress call touches only the first active goal of
\* the name: every other goal keeps its fields, its collection and its
\* relative position; delete-goal removes every active goal of the name.
C17_FirstMatchOnly ==
    [][/\ (last'.op = "log_progress" /\ last'.ret = "True") =>
             /\ ActiveNamed(data, heap, last'.name) # {}
             /\ LET f == FirstActive(data, heap, last'.name)
                IN  /\ \A o \in (DOMAIN heap) \ {f} :
                          /\ o \in DOMAIN heap'
                          /\ heap'[o] = heap[o]
                    /\ SelectSeq(data'.active_goals, LAMBDA o : o # f)
                          = SelectSeq(data.active_goals, LAMBDA o : o # f)
                    /\ SelectSeq(data'.completed_goals, LAMBDA o : o # f)
                          = data.completed_goals
       /\ (last'.op = "delete_goal" =>
              /\ ActiveNamed(data', heap', last'.name) = {}
              /\ Len(data'.active_goals) =
                    Len(data.active_goals)
                    - Cardinality(ActiveNamed(data, heap, last'.name)))]_vars

\* Of two goals that were equal in every field, a log-progress call has
\* completed one and left the other active with no entry.
C17_Witness ==
    /\ last.op = "log_progress" /\ last.ret = "True"
    /\ \E o \in Elems(data.active_goals), c \in Elems(data.completed_goals) :
          /\ heap[c].name = last.name
          /\ heap[o].daily_logs = <<>>
          /\ \A k \in (DOMAIN heap[o]) \ {"daily_logs"} :
                k \in DOMAIN heap[c] /\ heap[c][k] = heap[o][k]

MissedDays(g) == IF "missed_days" \in DOMAIN g THEN g.missed_days ELSE <<>>

RECURSIVE TotalLogs(_, _)
TotalLogs(hp, objs) ==
    IF objs = {} THEN 0
    ELSE LET o == CHOOSE p \in objs : TRUE
         IN  Len(hp[o].daily_logs) + TotalLogs(hp, objs \ {o})

RECURSIVE TotalMissed(_, _)
TotalMissed(hp, objs) ==
    IF objs = {} THEN 0
    ELSE LET o == CHOOSE p \in objs : TRUE
         IN  Len(MissedDays(hp[o])) + TotalMissed(hp, objs \ {o})

\* C18: across every step the daily_logs and missed_days of each goal that
\* still exists extend the previous ones (goals are matched by position
\* across a reload), and a successful log-progress (log-missed-day) call
\* adds exactly one daily_logs (missed_days) entry in the whole store.
C18_AppendOnly ==
    [][/\ (last'.op # "load_data" =>
              \A o \in (DOMAIN heap) \cap (DOMAIN heap') :
                  /\ IsPrefix(heap[o].daily_logs, heap'[o].daily_logs)
                  /\ IsPrefix(MissedDays(heap[o]), MissedDays(heap'[o])))
       /\ (last'.op = "load_data" =>
              \A k \in {"active_goals", "completed_goals"} :
                  /\ Len(data'[k]) = Len(data[k])
                  /\ \A i \in 1 .. Len(data[k]) :
                        /\ IsPrefix(heap[data[k][i]].daily_logs,
                                    heap'[data'[k][i]].daily_logs)
                        /\ IsPrefix(MissedDays(heap[data[k][i]]),
                                    MissedDays(heap'[data'[k][i]])))
       /\ ((last'.op = "log_progress" /\ last'.ret = "True") =>
              /\ DOMAIN heap' = DOMAIN heap
              /\ TotalLogs(heap', DOMAIN heap') = TotalLogs(heap, DOMAIN heap) + 1
              /\ TotalMissed(heap', DOMAIN heap') = TotalMissed(heap, DOMAIN heap))
       /\ ((last'.op = "log_missed_day" /\ last'.ret = "True") =>
              /\ DOMAIN heap' = DOMAIN heap
              /\ TotalMissed(heap', DOMAIN heap') = TotalMissed(heap, DOMAIN heap) + 1
              /\ TotalLogs(heap', DOMAIN heap') = TotalLogs(heap, DOMAIN heap))]_vars

\* A goal holds two daily_logs entries of different amounts, the second one
\* appended by the log-progress call that just returned.
C18_Witness ==
    /\ last.op = "log_progress" /\ last.ret = "True"
    /\ \E o \in DOMAIN heap :
          /\ heap[o].name = last.name
          /\ Len(heap[o].daily_logs) = 2
          /\ heap[o].daily_logs[1].progress # heap[o].daily_logs[2].progress

\* C19: a log-missed-day call changes nothing but the missed_days of the
\* first active goal of the name: both collections, every daily_logs, every
\* other field and every other goal stay as they were.
C19_MissedDayFrame ==
    [][last'.op = "log_missed_day" =>
          /\ data' = data
          /\ DOMAIN heap' = DOMAIN heap
          /\ \A o \in DOMAIN heap :
                /\ DOMAIN heap'[o] = DOMAIN heap[o]
                /\ \A k \in (DOMAIN heap[o]) \ {"missed_days"} :
                      heap'[o][k] = heap[o][k]
                /\ ((\/ ActiveNamed(data, heap, last'.name) = {}
                     \/ o # FirstActive(data, heap, last'.name))
                    => heap'[o] = heap[o])]_vars

\* A missed day has been logged for the first of two active goals of one
\* name; the second has none.
C19_Witness ==
    /\ last.op = "log_missed_day" /\ last.ret = "True"
    /\ Len(data.active_goals) = 2
    /\ heap[data.active_goals[1]].name = last.name
    /\ heap[data.active_goals[2]].name = last.name
    /\ Len(MissedDays(heap[data.active_goals[1]])) = 1
    /\ "missed_days" \in DOMAIN heap[data.active_goals[2]]
    /\ heap[data.active_goals[2]].missed_days = <<>>

\* C20: the weekly-progress query changes neither collection nor the stored
\* document, raises nothing, and returns 0 for a name no active goal has.
C20_WeeklyQueryReadOnly ==
    [][last'.op = "get_weekly_progress" =>
          /\ last'.ret = "value"
          /\ data' = data
          /\ heap' = heap
          /\ file' = file
          /\ (ActiveNamed(data, heap, last'.name) = {} => last'.val = 0)]_vars

\* The query has returned 0 for the name of a goal that is completed, with
\* an entry in the current ISO week, and no longer active.
C20_Witness ==
    /\ last.op = "get_weekly_progress" /\ last.val = 0
    /\ ActiveNamed(data, heap, last.name) = {}
    /\ \E c \in Elems(data.completed_goals) :
          /\ heap[c].name = last.name
          /\ \E i \in 1 .. Len(heap[c].daily_logs) :
                isocalendar(heap[c].daily_logs[i].date) = isocalendar(today)

====
